---- MODULE Spec2Model ----
(***************************************************************************)
(* Session Manager (src/src/services/auth.ts, class AuthService) and       *)
(* Session Context (src/src/contexts/AuthContext.tsx, AuthProvider) over   *)
(* the browser's localStorage.                                             *)
(*                                                                         *)
(* JavaScript values are tagged records so that values of different types  *)
(* can be compared: undefined, null, [string |-> s], [boolean |-> b],      *)
(* [iso |-> d] (the ISO string of the instant d), [prefix |-> p, ts |-> t] *)
(* (the template string `p${t}`) and [json |-> o] (a JSON text).           *)
(* Objects are functions from property names to such values.               *)
(* The clock counts days since 1970-01-01.                                 *)
(***************************************************************************)
EXTENDS Integers, Sequences, FiniteSets, TLC

\* ---------------------------------------------------------------- bounds
MaxPending == 2
MaxOps == 2

\* ---------------------------------------------------------------- inputs
Emails == {"a@x", "b@x"}
NewEmails == {"b@x"}
Passwords == {"pw"}
FullNames == {"A"}
Phones == {"555"}
VehicleNumbers == {"X"}
CompanyNames == {"Acme"}
PanNumbers == {"PAN1"}
VerifyTokens == {"tok", ""}
Tiers == {"semiannual", "annual"}
ClockDates == {<<2024, 2, 29>>, <<2024, 4, 1>>}

\* ---------------------------------------------------------------- values
Undefined == [undefined |-> TRUE]
S(s) == [string |-> s]
B(b) == [boolean |-> b]
Iso(d) == [iso |-> d]
Template(prefix, t) == [prefix |-> prefix, ts |-> t]
Null == [null |-> TRUE]
Corrupt == [corrupt |-> TRUE]
Message(prefix, cause) == [prefix |-> prefix, cause |-> cause]
EmptyObject == [k \in {} |-> Undefined]

\* o.k : reading a property that is missing yields undefined
Get(o, k) == IF k \in DOMAIN o THEN o[k] ELSE Undefined

\* { ...a, ...b } ; spreading null contributes no property
Spread(a, b) ==
  LET x == IF a = Null THEN EmptyObject ELSE a
      y == IF b = Null THEN EmptyObject ELSE b
  IN  [k \in DOMAIN x \cup DOMAIN y |-> IF k \in DOMAIN y THEN y[k] ELSE x[k]]

\* JavaScript truthiness of the values that occur
Truthy(v) == v \notin {Undefined, B(FALSE), S("")}

\* a || b
OrElse(a, b) == IF Truthy(a) THEN a ELSE b

\* faulty variant of JSONstringify: an undefined property is written as null
JSONstringify_undefinedAsNull(o) ==
  [json |-> [k \in DOMAIN o |-> IF o[k] = Undefined THEN Null ELSE o[k]]]

\* JSON.stringify of an object: properties whose value is undefined are dropped
JSONstringify(o) == [json |-> [k \in {j \in DOMAIN o : o[j] # Undefined} |-> o[k]]]

\* JSON.parse of a text JSON.stringify produced (Corrupt does not parse)
JSONparse(text) == text.json

\* ---------------------------------------------------------------- dates
\* days since 1970-01-01 of the civil date <<y, m, d>>
DaysFromCivil(date) ==
  LET y   == IF date[2] <= 2 THEN date[1] - 1 ELSE date[1]
      era == y \div 400
      yoe == y - era * 400
      mp  == IF date[2] > 2 THEN date[2] - 3 ELSE date[2] + 9
      doy == (153 * mp + 2) \div 5 + date[3] - 1
      doe == yoe * 365 + yoe \div 4 - yoe \div 100 + doy
  IN  era * 146097 + doe - 719468

\* civil date <<y, m, d>> of a day number
CivilFromDays(z0) ==
  LET z   == z0 + 719468
      era == z \div 146097
      doe == z - era * 146097
      yoe == (doe - doe \div 1460 + doe \div 36524 - doe \div 146096) \div 365
      doy == doe - (365 * yoe + yoe \div 4 - yoe \div 100)
      mp  == (5 * doy + 2) \div 153
      d   == doy - (153 * mp + 2) \div 5 + 1
      m   == IF mp < 10 THEN mp + 3 ELSE mp - 9
      y   == yoe + era * 400
  IN  <<IF m <= 2 THEN y + 1 ELSE y, m, d>>

\* faulty variant of AddDays: the days are subtracted
AddDays_backwards(t, n) == t - n

\* Date.setDate(getDate() + n): the day field overflows into later months
AddDays(t, n) == t + n

\* Date.setMonth(getMonth() + n): month overflows into the year, then a day
\* past the end of the month overflows into the next month
AddMonths(t, n) ==
  LET c  == CivilFromDays(t)
      m0 == (c[2] - 1) + n
      y  == c[1] + m0 \div 12
      m  == (m0 % 12) + 1
  IN  DaysFromCivil(<<y, m, 1>>) + (c[3] - 1)

\* Date.setFullYear(getFullYear() + n)
AddYears(t, n) ==
  LET c == CivilFromDays(t)
  IN  DaysFromCivil(<<c[1] + n, c[2], 1>>) + (c[3] - 1)

\* the instants the clock takes, and the first of them
ClockDays == {DaysFromCivil(d) : d \in ClockDates}
StartDay == CHOOSE t \in ClockDays : \A u \in ClockDays : t <= u

\* ---------------------------------------------------------------- state
VARIABLES
  localStorage,      \* the three persisted keys, each a value or Null
  USE_AMPLIFY_AUTH,  \* FEATURES.USE_AMPLIFY_AUTH, fixed for the process
  now,               \* the clock, in days
  user,              \* useState: the in-memory user, an object or Null
  isLoading,         \* useState
  emailUnverified,   \* useState
  closureUser,       \* the `user` the callbacks of the last render closed over
  mounted,           \* the mount effect (initializeAuth) has run
  pending,           \* continuations waiting behind an await, in order
  ops,               \* operations invoked so far
  ret,               \* what the last step called and what it returned
  page               \* PaymentSuccessPage, when it is the page on screen

vars == <<localStorage, USE_AMPLIFY_AUTH, now, user, isLoading,
          emailUnverified, closureUser, mounted, pending, ops, ret, page>>

USER == "auth_user"
TOKEN == "auth_token"
REFRESH_TOKEN == "auth_refresh_token"
STORAGE_KEYS == {USER, TOKEN, REFRESH_TOKEN}

NoCall == [op |-> "none"]

\* ---------------------------------------------------------------- storage
\* localStorage.getItem(key)
getItem(store, key) == store[key]

\* A run of localStorage.setItem(key, value) calls, writes[i] = <<key, value>>.
\* failAt = 0: none throws; failAt = i: the i-th call throws (quota), the
\* calls before it have taken effect.
setItems(store, writes, failAt) ==
  [k \in STORAGE_KEYS |->
     LET done == {i \in 1..Len(writes) :
                    writes[i][1] = k /\ (failAt = 0 \/ i < failAt)}
     IN  IF done = {} THEN store[k]
         ELSE writes[CHOOSE i \in done : \A j \in done : j <= i][2]]

\* A run of localStorage.removeItem(key) calls, with the same failure model.
removeItems(store, keys, failAt) ==
  [k \in STORAGE_KEYS |->
     IF \E i \in 1..Len(keys) : keys[i] = k /\ (failAt = 0 \/ i < failAt)
     THEN Null ELSE store[k]]

Completes(n, failAt) == failAt = 0 \/ failAt > n

StorageError == "storage error"

\* ---------------------------------------------------------------- Session Manager
\* Each operation yields the store it leaves, whether it threw, the message
\* of the Error it threw and the value it returned.

\* faulty variant of getCurrentUser: a text that does not parse is not caught
getCurrentUser_noCatch(store) ==
  LET userData == getItem(store, USER)
  IN  IF userData = Null THEN Null
      ELSE IF userData = Corrupt THEN Corrupt
      ELSE JSONparse(userData)

getCurrentUser(store) ==
  LET userData == getItem(store, USER)
  IN  IF userData = Null THEN Null
      ELSE IF userData = Corrupt THEN Null
      ELSE JSONparse(userData)

getAccessToken(store) == getItem(store, TOKEN)

isLoggedIn(store) ==
  LET u == getCurrentUser(store)
      token == getAccessToken(store)
  IN  u # Null /\ token # Null

\* faulty variant of loginUser: the email is a fixed one, not the supplied one
loginUser_wrongEmail(credentials, t) ==
  [id |-> S("placeholder-user-id"),
   email |-> S("john.doe@example.com"),
   fullName |-> S("John Doe"),
   phone |-> S("+1234567890"),
   isOnboarded |-> B(TRUE),
   subscribed |-> B(TRUE),
   subscriptionEnd |-> Iso(t + 30),
   emailUnverified |-> B(FALSE)]

\* the user login synthesizes
loginUser(credentials, t) ==
  [id |-> S("placeholder-user-id"),
   email |-> S(credentials.email),
   fullName |-> S("John Doe"),
   phone |-> S("+1234567890"),
   isOnboarded |-> B(TRUE),
   subscribed |-> B(TRUE),
   subscriptionEnd |-> Iso(t + 30),
   emailUnverified |-> B(FALSE)]

\* the three setItem calls of login and signUp, in order
sessionWrites(u, accessToken, refreshToken) ==
  <<<<USER, JSONstringify(u)>>, <<TOKEN, accessToken>>,
    <<REFRESH_TOKEN, refreshToken>>>>

authService_login(store, credentials, t, failAt) ==
  IF USE_AMPLIFY_AUTH
  THEN [store |-> store, raised |-> TRUE, response |-> Null,
        message |-> Message("Login failed: ", "AWS Cognito authentication not yet implemented")]
  ELSE LET u == loginUser(credentials, t)
           accessToken == Template("placeholder-token-", t)
           refreshToken == Template("placeholder-refresh-", t)
           writes == sessionWrites(u, accessToken, refreshToken)
       IN  IF Completes(3, failAt)
           THEN [store |-> setItems(store, writes, 0), raised |-> FALSE,
                 message |-> Undefined,
                 response |-> [user |-> u, accessToken |-> accessToken,
                               refreshToken |-> refreshToken]]
           ELSE [store |-> setItems(store, writes, failAt), raised |-> TRUE,
                 response |-> Null,
                 message |-> Message("Login failed: ", StorageError)]

\* faulty variant of signUpUser: emailUnverified is not set
signUpUser_verified(data, t) ==
  [id |-> Template("placeholder-user-", t),
   email |-> S(data.email),
   fullName |-> OrElse(data.fullName, S("")),
   phone |-> OrElse(data.phone, S("")),
   isOnboarded |-> B(FALSE),
   subscribed |-> B(FALSE)]

\* the user signUp synthesizes
signUpUser(data, t) ==
  [id |-> Template("placeholder-user-", t),
   email |-> S(data.email),
   fullName |-> OrElse(data.fullName, S("")),
   phone |-> OrElse(data.phone, S("")),
   isOnboarded |-> B(FALSE),
   subscribed |-> B(FALSE),
   emailUnverified |-> B(TRUE)]

authService_signUp(store, data, t, failAt) ==
  IF USE_AMPLIFY_AUTH
  THEN [store |-> store, raised |-> TRUE, response |-> Null,
        message |-> Message("Sign up failed: ", "AWS Cognito registration not yet implemented")]
  ELSE LET u == signUpUser(data, t)
           accessToken == Template("placeholder-token-", t)
           refreshToken == Template("placeholder-refresh-", t)
           writes == sessionWrites(u, accessToken, refreshToken)
       IN  IF Completes(3, failAt)
           THEN [store |-> setItems(store, writes, 0), raised |-> FALSE,
                 message |-> Undefined,
                 response |-> [user |-> u, accessToken |-> accessToken,
                               refreshToken |-> refreshToken]]
           ELSE [store |-> setItems(store, writes, failAt), raised |-> TRUE,
                 response |-> Null,
                 message |-> Message("Sign up failed: ", StorageError)]

\* failTry: which removeItem of the try block throws (0: none);
\* failCatch: which removeItem of the catch block throws (0: none).
authService_logout(store, failTry, failCatch) ==
  LET keys == <<USER, TOKEN, REFRESH_TOKEN>>
      afterTry == removeItems(store, keys, failTry)
  IN  IF Completes(3, failTry)
      THEN [store |-> afterTry, raised |-> FALSE, message |-> Undefined]
      ELSE IF Completes(3, failCatch)
      THEN [store |-> removeItems(afterTry, keys, 0), raised |-> FALSE,
            message |-> Undefined]
      ELSE [store |-> removeItems(afterTry, keys, failCatch), raised |-> TRUE,
            message |-> Message("", StorageError)]

\* faulty variant of authService_refreshToken: the refresh token is renewed too
authService_refreshToken_bothTokens(store, t, failAt) ==
  IF USE_AMPLIFY_AUTH
  THEN [store |-> store, raised |-> TRUE, response |-> Null,
        message |-> Message("Token refresh failed: ", "AWS Cognito token refresh not yet implemented")]
  ELSE LET newToken == Template("placeholder-token-refreshed-", t)
       IN  IF Completes(1, failAt)
           THEN [store |-> setItems(store, <<<<TOKEN, newToken>>,
                                            <<REFRESH_TOKEN, newToken>>>>, 0),
                 raised |-> FALSE, message |-> Undefined, response |-> newToken]
           ELSE [store |-> store, raised |-> TRUE, response |-> Null,
                 message |-> Message("Token refresh failed: ", StorageError)]

authService_refreshToken(store, t, failAt) ==
  IF USE_AMPLIFY_AUTH
  THEN [store |-> store, raised |-> TRUE, response |-> Null,
        message |-> Message("Token refresh failed: ", "AWS Cognito token refresh not yet implemented")]
  ELSE LET newToken == Template("placeholder-token-refreshed-", t)
       IN  IF Completes(1, failAt)
           THEN [store |-> setItems(store, <<<<TOKEN, newToken>>>>, 0),
                 raised |-> FALSE, message |-> Undefined, response |-> newToken]
           ELSE [store |-> store, raised |-> TRUE, response |-> Null,
                 message |-> Message("Token refresh failed: ", StorageError)]

authService_verifyEmail(store, token, failAt) ==
  IF USE_AMPLIFY_AUTH
  THEN [store |-> store, raised |-> TRUE,
        message |-> Message("Email verification failed: ", "AWS Cognito email verification not yet implemented")]
  ELSE LET u == getCurrentUser(store)
       IN  IF u = Null
           THEN [store |-> store, raised |-> FALSE, message |-> Undefined]
           ELSE IF Completes(1, failAt)
           THEN [store |-> setItems(store,
                   <<<<USER, JSONstringify(Spread(u, [emailUnverified |-> B(FALSE)]))>>>>, 0),
                 raised |-> FALSE, message |-> Undefined]
           ELSE [store |-> store, raised |-> TRUE,
                 message |-> Message("Email verification failed: ", StorageError)]

\* the keys that hold a value
Present(store) == {k \in STORAGE_KEYS : store[k] # Null}

\* ---------------------------------------------------------------- Session Context
\* the properties the context copies out of a Session Manager user
ContextFields == {"id", "email", "fullName", "phone", "isOnboarded",
                  "subscribed", "subscriptionEnd", "emailUnverified"}

\* the object literal { id: u.id, email: u.email, ... }
ContextUser(u) == [k \in ContextFields |-> Get(u, k)]

\* the mount effect; cur is the state before it
initializeAuth(store, cur) ==
  LET currentUser == getCurrentUser(store)
  IN  IF currentUser # Null
      THEN [user |-> ContextUser(currentUser),
            emailUnverified |-> Truthy(Get(currentUser, "emailUnverified")),
            isLoading |-> FALSE]
      ELSE [user |-> cur.user, emailUnverified |-> cur.emailUnverified,
            isLoading |-> FALSE]

\* faulty variant of login_settle: a user already in memory is kept
login_settle_keepsFirst(r, cur, fallback) ==
  IF ~r.raised
  THEN [user |-> IF cur.user # Null THEN cur.user
                 ELSE ContextUser(r.response.user),
        emailUnverified |-> Truthy(Get(r.response.user, "emailUnverified")),
        isLoading |-> FALSE, raised |-> FALSE,
        value |-> [error |-> Undefined]]
  ELSE [user |-> cur.user, emailUnverified |-> cur.emailUnverified,
        isLoading |-> FALSE, raised |-> FALSE,
        value |-> [error |-> IF r.message # Undefined THEN r.message
                             ELSE Message(fallback, "")]]

\* faulty variant of login_settle: the rejection is not caught
login_settle_noCatch(r, cur, fallback) ==
  IF ~r.raised
  THEN [user |-> ContextUser(r.response.user),
        emailUnverified |-> Truthy(Get(r.response.user, "emailUnverified")),
        isLoading |-> FALSE, raised |-> FALSE,
        value |-> [error |-> Undefined]]
  ELSE [user |-> cur.user, emailUnverified |-> cur.emailUnverified,
        isLoading |-> FALSE, raised |-> TRUE, value |-> Undefined]

\* login and signup after `await authService.login/signUp`: r is what the
\* Session Manager call produced, cur the state at that moment
login_settle(r, cur, fallback) ==
  IF ~r.raised
  THEN [user |-> ContextUser(r.response.user),
        emailUnverified |-> Truthy(Get(r.response.user, "emailUnverified")),
        isLoading |-> FALSE, raised |-> FALSE,
        value |-> [error |-> Undefined]]
  ELSE [user |-> cur.user, emailUnverified |-> cur.emailUnverified,
        isLoading |-> FALSE, raised |-> FALSE,
        value |-> [error |-> IF r.message # Undefined THEN r.message
                             ELSE Message(fallback, "")]]

\* logout after `await authService.logout()`
logout_settle(r, cur) ==
  IF ~r.raised
  THEN [user |-> Null, emailUnverified |-> FALSE, isLoading |-> FALSE,
        raised |-> FALSE, value |-> Undefined]
  ELSE [user |-> cur.user, emailUnverified |-> cur.emailUnverified,
        isLoading |-> FALSE, raised |-> FALSE, value |-> Undefined]

\* The four synchronous mutators.  closure is the `user` the callback closed
\* over, cur the current in-memory user, failAt = 1 when setItem throws.
\* patch is what the callback merges into both copies.
mutate(closure, store, cur, patch, failAt, onGuard, onCatch, onDone) ==
  IF closure = Null
  THEN [user |-> cur, store |-> store, raised |-> FALSE, value |-> onGuard]
  ELSE LET updatedUser == Spread(closure, patch)
           text == JSONstringify(Spread(getCurrentUser(store), patch))
       IN  IF Completes(1, failAt)
           THEN [user |-> updatedUser,
                 store |-> setItems(store, <<<<USER, text>>>>, 0),
                 raised |-> FALSE, value |-> onDone]
           ELSE [user |-> cur, store |-> store, raised |-> FALSE,
                 value |-> onCatch]

completeOnboarding(closure, store, cur, profileData, failAt) ==
  mutate(closure, store, cur,
         [fullName |-> S(profileData.fullName),
          phone |-> S(profileData.mobileNo),
          isOnboarded |-> B(TRUE)],
         failAt, B(FALSE), B(FALSE), B(TRUE))

updateProfile(closure, store, cur, profileData, failAt) ==
  IF closure = Null
  THEN [user |-> cur, store |-> store, raised |-> FALSE, value |-> B(FALSE)]
  ELSE LET updatedUser ==
             Spread(closure, [fullName |-> S(profileData.fullName),
                              companyName |-> S(profileData.companyName),
                              panNumber |-> S(profileData.panNumber),
                              phone |-> S(profileData.phone)])
           text == JSONstringify(Spread(getCurrentUser(store),
                     [k \in DOMAIN profileData |-> S(profileData[k])]))
       IN  IF Completes(1, failAt)
           THEN [user |-> updatedUser,
                 store |-> setItems(store, <<<<USER, text>>>>, 0),
                 raised |-> FALSE, value |-> B(TRUE)]
           ELSE [user |-> cur, store |-> store, raised |-> FALSE,
                 value |-> B(FALSE)]

startTrial(closure, store, cur, t, failAt) ==
  LET trialEnd == AddDays(t, 7)
  IN  mutate(closure, store, cur,
             [subscribed |-> B(TRUE),
              subscriptionTier |-> S("trial"),
              subscriptionEnd |-> Iso(trialEnd)],
             failAt, Undefined, Undefined, Undefined)

setPaidSubscription(closure, store, cur, tier, t, failAt) ==
  LET subscriptionEnd == IF tier = "semiannual" THEN AddMonths(t, 6)
                         ELSE AddYears(t, 1)
  IN  mutate(closure, store, cur,
             [subscribed |-> B(TRUE),
              subscriptionTier |-> S(tier),
              subscriptionEnd |-> Iso(subscriptionEnd)],
             failAt, Undefined, Undefined, Undefined)

\* ---------------------------------------------------------------- observation
\* the Session Manager call a step made: its arguments, the keys present
\* before it, and its outcome
SMCall(op, args, store, r) ==
  [op |-> op, args |-> args, was |-> Present(store), raised |-> r.raised,
   message |-> r.message,
   response |-> IF "response" \in DOMAIN r THEN r.response ELSE Undefined]

\* what a Session Context operation returned to its caller
CtxReturn(op, args, r) ==
  [op |-> op, args |-> args, raised |-> r.raised, value |-> r.value]

Outcome(r) ==
  [raised |-> r.raised, message |-> r.message,
   response |-> IF "response" \in DOMAIN r THEN r.response ELSE Undefined]

Cur == [user |-> user, emailUnverified |-> emailUnverified]

\* which of a run of n storage calls throws (0: none)
FailAt(n) == 0..n

\* the instants the clock can have moved on to since t: the next sampled day
Later(t) ==
  LET after == {u \in ClockDays : u > t}
  IN  {u \in after : \A v \in after : u <= v}

\* the page invokes an operation, once the provider has mounted; the clock
\* may have moved on since the operation before it
Invoke ==
  /\ mounted
  /\ ops < MaxOps
  /\ ops' = ops + 1
  /\ now' \in {now} \cup Later(now)

\* ---------------------------------------------------------------- Init
\* another page than PaymentSuccessPage is on screen
NoPage == [orderId |-> Null, status |-> "unmounted", rendered |-> <<>>,
           effectDue |-> FALSE, runs |-> <<>>]

\* What an earlier page of this origin can have left in the store: nothing,
\* a user key that does not parse, or the session of a login or a signup.
EmptyStore == [k \in STORAGE_KEYS |-> Null]

InitialStores(t) ==
  {EmptyStore, [EmptyStore EXCEPT ![USER] = Corrupt]}
  \cup {authService_login(EmptyStore, [email |-> "a@x", password |-> "pw"], t, 0).store,
        authService_signUp(EmptyStore,
                           [email |-> "b@x", password |-> "pw",
                            fullName |-> Undefined, phone |-> Undefined],
                           t, 0).store}

\* the provider as constructed, over whatever the store holds
Constructed ==
  /\ USE_AMPLIFY_AUTH \in BOOLEAN
  /\ now = StartDay
  /\ localStorage \in InitialStores(now)
  /\ user = Null
  /\ isLoading = TRUE
  /\ emailUnverified = FALSE
  /\ closureUser = Null
  /\ mounted = FALSE
  /\ pending = <<>>
  /\ ops = 0
  /\ ret = [step |-> "init", sm |-> NoCall, ctx |-> NoCall]

Init ==
  /\ Constructed
  /\ page = NoPage

\* ---------------------------------------------------------------- environment
\* React re-renders: the callbacks now close over the current user
Render ==
  /\ closureUser # user
  /\ closureUser' = user
  /\ ret' = [step |-> "Render", sm |-> NoCall, ctx |-> NoCall]
  /\ UNCHANGED <<page, localStorage, USE_AMPLIFY_AUTH, now, user, isLoading,
                 emailUnverified, mounted, pending, ops>>

\* the page is reloaded: the provider is constructed anew, the store survives
Reload ==
  /\ mounted
  /\ user' = Null
  /\ isLoading' = TRUE
  /\ emailUnverified' = FALSE
  /\ closureUser' = Null
  /\ mounted' = FALSE
  /\ pending' = <<>>
  /\ ret' = [step |-> "Reload", sm |-> NoCall, ctx |-> NoCall,
             before |-> [user |-> user, inFlight |-> pending # <<>>]]
  /\ UNCHANGED <<page, localStorage, USE_AMPLIFY_AUTH, now, ops>>

\* ---------------------------------------------------------------- direct Session Manager calls
\* (login and signUp are called through the Session Context only)
Call_logout ==
  \E failTry \in FailAt(3), failCatch \in FailAt(3) :
    LET r == authService_logout(localStorage, failTry, failCatch)
    IN  /\ Invoke
        /\ failTry = 0 => failCatch = 0
        /\ localStorage' = r.store
        /\ ret' = [step |-> "authService.logout", ctx |-> NoCall,
                   sm |-> SMCall("logout",
                                 [threw |-> failTry # 0],
                                 localStorage, r)]
        /\ UNCHANGED <<page, USE_AMPLIFY_AUTH, user, isLoading, emailUnverified,
                       closureUser, mounted, pending>>

Call_refreshToken ==
  \E failAt \in FailAt(1) :
    LET r == authService_refreshToken(localStorage, now', failAt)
    IN  /\ Invoke
        /\ localStorage' = r.store
        /\ ret' = [step |-> "authService.refreshToken", ctx |-> NoCall,
                   sm |-> SMCall("refreshToken", [threw |-> failAt # 0],
                                 localStorage, r)]
        /\ UNCHANGED <<page, USE_AMPLIFY_AUTH, user, isLoading, emailUnverified,
                       closureUser, mounted, pending>>

Call_verifyEmail ==
  \E token \in VerifyTokens, failAt \in FailAt(1) :
    LET r == authService_verifyEmail(localStorage, token, failAt)
    IN  /\ Invoke
        /\ localStorage' = r.store
        /\ ret' = [step |-> "authService.verifyEmail", ctx |-> NoCall,
                   sm |-> SMCall("verifyEmail",
                                 [threw |-> failAt # 0],
                                 localStorage, r)]
        /\ UNCHANGED <<page, USE_AMPLIFY_AUTH, user, isLoading, emailUnverified,
                       closureUser, mounted, pending>>

\* ---------------------------------------------------------------- Session Context actions
\* the mount effect of AuthProvider
Mount ==
  /\ ~mounted
  /\ LET r == initializeAuth(localStorage, Cur)
     IN  /\ user' = r.user
         /\ emailUnverified' = r.emailUnverified
         /\ isLoading' = r.isLoading
  /\ mounted' = TRUE
  /\ ret' = [step |-> "initializeAuth", sm |-> NoCall, ctx |-> NoCall]
  /\ UNCHANGED <<page, localStorage, USE_AMPLIFY_AUTH, now, closureUser, pending, ops>>

\* login up to its await: setIsLoading(true) and the Session Manager call
login ==
  \E email \in Emails, password \in Passwords, failAt \in FailAt(3) :
    LET r == authService_login(localStorage,
                               [email |-> email, password |-> password],
                               now', failAt)
    IN  /\ Invoke
        /\ Len(pending) < MaxPending
        /\ isLoading' = TRUE
        /\ localStorage' = r.store
        /\ pending' = Append(pending, [op |-> "login", args |-> [email |-> email],
                                       r |-> Outcome(r)])
        /\ ret' = [step |-> "login", ctx |-> NoCall,
                   sm |-> SMCall("login", [email |-> email, threw |-> failAt # 0],
                                 localStorage, r)]
        /\ UNCHANGED <<page, USE_AMPLIFY_AUTH, user, emailUnverified,
                       closureUser, mounted>>

signup ==
  \E email \in NewEmails, password \in Passwords, fullName \in FullNames,
     phone \in Phones, vehicleNumber \in VehicleNumbers, failAt \in FailAt(3) :
    LET userData == [fullName |-> fullName, phone |-> phone,
                     vehicleNumber |-> vehicleNumber]
        r == authService_signUp(localStorage,
                                [email |-> email, password |-> password,
                                 fullName |-> S(userData.fullName),
                                 phone |-> S(userData.phone)],
                                now', failAt)
    IN  /\ Invoke
        /\ Len(pending) < MaxPending
        /\ isLoading' = TRUE
        /\ localStorage' = r.store
        /\ pending' = Append(pending, [op |-> "signup", args |-> [email |-> email],
                                       r |-> Outcome(r)])
        /\ ret' = [step |-> "signup", ctx |-> NoCall,
                   sm |-> SMCall("signUp", [email |-> email, threw |-> failAt # 0],
                                 localStorage, r)]
        /\ UNCHANGED <<page, USE_AMPLIFY_AUTH, user, emailUnverified,
                       closureUser, mounted>>

logout ==
  \E failTry \in FailAt(3), failCatch \in FailAt(3) :
    LET r == authService_logout(localStorage, failTry, failCatch)
    IN  /\ Invoke
        /\ failTry = 0 => failCatch = 0
        /\ Len(pending) < MaxPending
        /\ isLoading' = TRUE
        /\ localStorage' = r.store
        /\ pending' = Append(pending, [op |-> "logout", args |-> EmptyObject,
                                       r |-> Outcome(r)])
        /\ ret' = [step |-> "logout", ctx |-> NoCall,
                   sm |-> SMCall("logout",
                                 [threw |-> failTry # 0],
                                 localStorage, r)]
        /\ UNCHANGED <<page, USE_AMPLIFY_AUTH, user, emailUnverified,
                       closureUser, mounted>>

\* the continuation at the head of the queue runs: the rest of login,
\* signup or logout after its await, its catch and its finally
Resume ==
  /\ pending # <<>>
  /\ LET p == Head(pending)
         r == CASE p.op = "login" -> login_settle(p.r, Cur, "Login failed")
                [] p.op = "signup" -> login_settle(p.r, Cur, "Signup failed")
                [] p.op = "logout" -> logout_settle(p.r, Cur)
     IN  /\ user' = r.user
         /\ emailUnverified' = r.emailUnverified
         /\ isLoading' = r.isLoading
         /\ ret' = [step |-> "Resume", sm |-> NoCall,
                    ctx |-> CtxReturn(p.op, p.args, r)]
  /\ pending' = Tail(pending)
  /\ UNCHANGED <<page, localStorage, USE_AMPLIFY_AUTH, now, closureUser, mounted, ops>>

Call_completeOnboarding ==
  \E fullName \in FullNames, mobileNo \in Phones,
     vehicleNumber \in VehicleNumbers, failAt \in FailAt(1) :
    LET profileData == [fullName |-> fullName, mobileNo |-> mobileNo,
                        vehicleNumber |-> vehicleNumber]
        r == completeOnboarding(closureUser, localStorage, user, profileData, failAt)
    IN  /\ Invoke
        /\ user' = r.user
        /\ localStorage' = r.store
        /\ ret' = [step |-> "completeOnboarding", sm |-> NoCall,
                   ctx |-> CtxReturn("completeOnboarding",
                                     [fullName |-> fullName, mobileNo |-> mobileNo,
                                      threw |-> failAt # 0], r)]
        /\ UNCHANGED <<page, USE_AMPLIFY_AUTH, isLoading, emailUnverified,
                       closureUser, mounted, pending>>

Call_updateProfile ==
  \E fullName \in FullNames, companyName \in CompanyNames,
     panNumber \in PanNumbers, phone \in Phones, failAt \in FailAt(1) :
    LET profileData == [fullName |-> fullName, companyName |-> companyName,
                        panNumber |-> panNumber, phone |-> phone]
        r == updateProfile(closureUser, localStorage, user, profileData, failAt)
    IN  /\ Invoke
        /\ user' = r.user
        /\ localStorage' = r.store
        /\ ret' = [step |-> "updateProfile", sm |-> NoCall,
                   ctx |-> CtxReturn("updateProfile",
                                     [fullName |-> fullName, threw |-> failAt # 0], r)]
        /\ UNCHANGED <<page, USE_AMPLIFY_AUTH, isLoading, emailUnverified,
                       closureUser, mounted, pending>>

Call_startTrial ==
  \E failAt \in FailAt(1) :
    LET r == startTrial(closureUser, localStorage, user, now', failAt)
    IN  /\ Invoke
        /\ user' = r.user
        /\ localStorage' = r.store
        /\ ret' = [step |-> "startTrial", sm |-> NoCall,
                   ctx |-> CtxReturn("startTrial", [threw |-> failAt # 0], r)]
        /\ UNCHANGED <<page, USE_AMPLIFY_AUTH, isLoading, emailUnverified,
                       closureUser, mounted, pending>>

Call_setPaidSubscription ==
  \E tier \in Tiers, failAt \in FailAt(1) :
    LET r == setPaidSubscription(closureUser, localStorage, user, tier, now', failAt)
    IN  /\ Invoke
        /\ user' = r.user
        /\ localStorage' = r.store
        /\ ret' = [step |-> "setPaidSubscription", sm |-> NoCall,
                   ctx |-> CtxReturn("setPaidSubscription",
                                     [tier |-> tier, threw |-> failAt # 0], r)]
        /\ UNCHANGED <<page, USE_AMPLIFY_AUTH, isLoading, emailUnverified,
                       closureUser, mounted, pending>>

\* ---------------------------------------------------------------- specification
Next ==
  \/ Render
  \/ Reload
  \/ Mount
  \/ Call_logout
  \/ Call_refreshToken
  \/ Call_verifyEmail
  \/ login
  \/ signup
  \/ logout
  \/ Resume
  \/ Call_completeOnboarding
  \/ Call_updateProfile
  \/ Call_startTrial
  \/ Call_setPaidSubscription

Spec == Init /\ [][Next]_vars

\* ---------------------------------------------------------------- properties
persisted == getCurrentUser(localStorage)

Together(store) == Present(store) \in {{}, STORAGE_KEYS}

Subscribed(u) == u # Null /\ Get(u, "subscribed") = B(TRUE)

\* C1: with the real-authentication flag off and no storage write throwing,
\* login(email, password) leaves isLoggedIn() true and getCurrentUser().email
\* equal to the supplied email, whatever the store held before.
C1_LoginThenLoggedIn ==
  (ret.sm.op = "login" /\ ~USE_AMPLIFY_AUTH /\ ~ret.sm.args.threw)
    => /\ isLoggedIn(localStorage)
       /\ Get(getCurrentUser(localStorage), "email") = S(ret.sm.args.email)

\* a login has succeeded over a store that held only part of a session
C1_Witness ==
  /\ ret.sm.op = "login" /\ ~USE_AMPLIFY_AUTH /\ ~ret.sm.args.threw
  /\ ret.sm.was \notin {{}, STORAGE_KEYS}
  /\ isLoggedIn(localStorage)

\* C2: from every state of the store, logout() ends with isLoggedIn() false
\* and getCurrentUser() none; so does a second logout, or one without session.
C2_LogoutClearsSession ==
  ret.sm.op = "logout"
    => ~isLoggedIn(localStorage) /\ getCurrentUser(localStorage) = Null

\* C3: once the Session Context logout has returned, user is absent and
\* emailUnverified is false, whether or not the Session Manager logout failed.
C3_ContextLogoutClears ==
  ret.ctx.op = "logout" => user = Null /\ emailUnverified = FALSE

\* C4: the Session Manager logout never raises: when a storage clear throws,
\* it still completes and leaves no session.
C4_LogoutNeverRaises ==
  (ret.sm.op = "logout" /\ ret.sm.args.threw)
    => ~ret.sm.raised /\ Present(localStorage) = {}

\* C5: login and signUp are all-or-nothing on the store: on success the three
\* keys hold the new session, on failure none of the three keys has changed.
C5_AllOrNothing ==
  [][ret'.sm.op \in {"login", "signUp"}
       => IF ret'.sm.raised
          THEN localStorage' = localStorage
          ELSE /\ localStorage'[USER] = JSONstringify(ret'.sm.response.user)
               /\ localStorage'[TOKEN] = ret'.sm.response.accessToken
               /\ localStorage'[REFRESH_TOKEN] = ret'.sm.response.refreshToken]_vars

\* C6: no Session Context operation lets an exception reach its caller; a
\* login or signup whose Session Manager call failed returns a result that
\* carries an error message and leaves user and emailUnverified unchanged.
C6_NoExceptionCrosses ==
  /\ [](ret.ctx.op # "none" => ~ret.ctx.raised)
  /\ [][(pending # <<>> /\ ret'.step = "Resume"
          /\ Head(pending).op \in {"login", "signup"} /\ Head(pending).r.raised)
         => /\ ~ret'.ctx.raised
            /\ ret'.ctx.value.error # Undefined
            /\ user' = user
            /\ emailUnverified' = emailUnverified]_vars

\* a login has returned an error result
C6_Witness ==
  /\ ret.ctx.op = "login"
  /\ ~ret.ctx.raised
  /\ ret.ctx.value.error # Undefined

NewUser(u) ==
  /\ u # Null
  /\ Get(u, "isOnboarded") = B(FALSE)
  /\ Get(u, "subscribed") = B(FALSE)
  /\ Get(u, "emailUnverified") = B(TRUE)

\* C7: every successful signUp produces a user with isOnboarded false,
\* subscribed false and emailUnverified true: in the returned Session, in
\* the persisted record, and through the Session Context signup in the
\* in-memory user and the context's emailUnverified.
C7_SignUpUser ==
  /\ (ret.sm.op = "signUp" /\ ~ret.sm.raised)
       => NewUser(ret.sm.response.user) /\ NewUser(persisted)
  /\ (ret.ctx.op = "signup" /\ ret.ctx.value.error = Undefined)
       => NewUser(user) /\ emailUnverified = TRUE

\* a Session Context signup has succeeded
C7_Witness ==
  /\ ret.ctx.op = "signup"
  /\ ret.ctx.value.error = Undefined
  /\ NewUser(user)

\* the subscription ends the records of a state carry
Ends(u, c, store, q) ==
  {Get(x, "subscriptionEnd") :
     x \in {u, c, getCurrentUser(store)}
           \cup {q[i].r.response.user : i \in {j \in 1..Len(q) : ~q[j].r.raised /\ q[j].op # "logout"}}}

HasEnd(u) == Subscribed(u) => "iso" \in DOMAIN Get(u, "subscriptionEnd")

\* C8: in every state, for the in-memory user and the persisted record,
\* subscribed = true implies subscriptionEnd is present; and every
\* subscriptionEnd a step puts there is either one a record already carried
\* or strictly later than the clock at that step.
C8_SubscribedHasFutureEnd ==
  /\ [](HasEnd(user) /\ HasEnd(persisted))
  /\ [][\A u \in {user', getCurrentUser(localStorage')} :
          Subscribed(u)
            => \/ Get(u, "subscriptionEnd") \in Ends(user, closureUser, localStorage, pending)
               \/ Get(u, "subscriptionEnd").iso > now']_vars

\* a trial has started: both copies are subscribed
C8_Witness ==
  /\ ret.ctx.op = "startTrial"
  /\ Subscribed(user)
  /\ Subscribed(persisted)
  /\ Get(user, "subscriptionEnd").iso > now

\* C9: the three keys are written together and cleared together: after any
\* operation they are all present or all absent.
C9_KeysTogether ==
  [][Together(localStorage) => Together(localStorage')]_vars

\* the store holds the token without the user, or the user without the token
Partial(store) == (store[USER] # Null) # (store[TOKEN] # Null)

\* C10: every reader treats a partially present session as absent:
\* isLoggedIn() is false, and initialization leaves the in-memory user absent.
C10_PartialIsAbsent ==
  Partial(localStorage)
    => /\ ~isLoggedIn(localStorage)
       /\ (ret.step = "initializeAuth" => user = Null)

\* C11: with a user loaded, completeOnboarding(fullName, mobileNo,
\* vehicleNumber) returns true and leaves isOnboarded true, fullName the
\* supplied fullName and phone the supplied mobileNo, in the in-memory user
\* and in the persisted record.
C11_CompleteOnboarding ==
  [][(ret'.ctx.op = "completeOnboarding" /\ user # Null)
       => /\ ret'.ctx.value = B(TRUE)
          /\ \A u \in {user', getCurrentUser(localStorage')} :
               /\ Get(u, "isOnboarded") = B(TRUE)
               /\ Get(u, "fullName") = S(ret'.ctx.args.fullName)
               /\ Get(u, "phone") = S(ret'.ctx.args.mobileNo)]_vars

\* C12: with no user loaded, completeOnboarding and updateProfile return
\* false and leave user, isLoading, emailUnverified and the store unchanged.
C12_NoUserNoOp ==
  [][(ret'.ctx.op \in {"completeOnboarding", "updateProfile"} /\ user = Null)
       => /\ ret'.ctx.value = B(FALSE)
          /\ UNCHANGED <<user, isLoading, emailUnverified, localStorage>>]_vars

\* subscribed with the given tier and end
SubscribedWith(u, tier, end) ==
  /\ Get(u, "subscribed") = B(TRUE)
  /\ Get(u, "subscriptionTier") = S(tier)
  /\ Get(u, "subscriptionEnd") = Iso(end)

\* C13: with a user loaded, setPaidSubscription(tier) leaves subscribed true,
\* subscriptionTier = tier and subscriptionEnd = now + 1 year (annual) or
\* now + 6 months (semiannual) in the in-memory user and the persisted record.
C13_SetPaidSubscription ==
  [][(ret'.ctx.op = "setPaidSubscription" /\ user # Null)
       => \A u \in {user', getCurrentUser(localStorage')} :
            SubscribedWith(u, ret'.ctx.args.tier,
                           IF ret'.ctx.args.tier = "annual"
                           THEN AddYears(now', 1) ELSE AddMonths(now', 6))]_vars

\* C14: startTrial() with a user loaded leaves subscribed true, tier trial and
\* subscriptionEnd = now + 7 days in both copies; with no user loaded it
\* changes neither the context state nor the store.
C14_StartTrial ==
  [][ret'.ctx.op = "startTrial"
       => IF user # Null
          THEN \A u \in {user', getCurrentUser(localStorage')} :
                 SubscribedWith(u, "trial", now' + 7)
          ELSE UNCHANGED <<user, isLoading, emailUnverified, localStorage>>]_vars

\* C15: once verifyEmail(token) has completed on a loaded user, whatever the
\* token, the persisted record has emailUnverified false, and so has the
\* Session Context (its emailUnverified mirrors the record's flag).
C15_VerifyEmailClearsFlag ==
  (ret.sm.op = "verifyEmail" /\ user # Null /\ persisted # Null)
    => /\ Get(persisted, "emailUnverified") = B(FALSE)
       /\ emailUnverified = FALSE

\* ---------------------------------------------------------------- round trip
\* The User records of every combination of fields: an optional field is
\* missing, explicitly undefined, or holds a value.
Absent == [absent |-> TRUE]

Optional(values) == values \cup {Undefined, Absent}

UserRecords ==
  LET shapes == [id : {S("placeholder-user-id")},
                 email : {S("a@x")},
                 fullName : Optional({S("A"), S("")}),
                 phone : Optional({S("555")}),
                 isOnboarded : {B(TRUE), B(FALSE)},
                 subscribed : {B(TRUE), B(FALSE)},
                 subscriptionEnd : Optional({Iso(StartDay)}),
                 subscriptionTier : Optional({S("trial")}),
                 emailUnverified : Optional({B(TRUE)}),
                 companyName : Optional({S("Acme")}),
                 panNumber : Optional({S("PAN1")})]
  IN  {[k \in {j \in DOMAIN r : r[j] # Absent} |-> r[k]] : r \in shapes}

UserFields == ContextFields \cup {"subscriptionTier", "companyName", "panNumber"}

\* a record is in memory, nothing is stored yet
RoundTripInit ==
  /\ USE_AMPLIFY_AUTH = FALSE
  /\ now = StartDay
  /\ localStorage = EmptyStore
  /\ user \in UserRecords
  /\ isLoading = FALSE
  /\ emailUnverified = FALSE
  /\ closureUser = Null
  /\ mounted = TRUE
  /\ pending = <<>>
  /\ ops = 0
  /\ ret = [step |-> "init", sm |-> NoCall, ctx |-> NoCall]
  /\ page = NoPage

\* localStorage.setItem(STORAGE_KEYS.USER, JSON.stringify(user))
WriteUser ==
  /\ ret.step = "init"
  /\ localStorage' = setItems(localStorage, <<<<USER, JSONstringify(user)>>>>, 0)
  /\ ret' = [step |-> "WriteUser", sm |-> NoCall, ctx |-> NoCall]
  /\ UNCHANGED <<page, USE_AMPLIFY_AUTH, now, user, isLoading, emailUnverified,
                 closureUser, mounted, pending, ops>>

RoundTripNext == WriteUser

RoundTripSpec == RoundTripInit /\ [][RoundTripNext]_vars

C17_RefreshTokenFrame ==
  [][ret'.sm.op = "refreshToken"
       => /\ localStorage'[USER] = localStorage[USER]
          /\ localStorage'[REFRESH_TOKEN] = localStorage[REFRESH_TOKEN]
          /\ USE_AMPLIFY_AUTH
               => /\ ret'.sm.raised
                  /\ ret'.sm.message.cause = "AWS Cognito token refresh not yet implemented"
                  /\ localStorage' = localStorage]_vars

\* a refreshToken has replaced the access token of a full session
C17_Witness ==
  /\ ret.sm.op = "refreshToken"
  /\ ~ret.sm.raised
  /\ ret.sm.was = STORAGE_KEYS
  /\ localStorage[TOKEN] = ret.sm.response
  /\ localStorage[TOKEN].prefix = "placeholder-token-refreshed-"

\* the user key holds a text that deserializes
UserPresent(store) == store[USER] \notin {Null, Corrupt}

\* C18: isLoggedIn() is true if and only if the user record and the access
\* token are both present; a user key that does not deserialize counts as
\* absent, and getCurrentUser() answers none for it instead of raising.
C18_IsLoggedInIff ==
  /\ isLoggedIn(localStorage) = (UserPresent(localStorage) /\ localStorage[TOKEN] # Null)
  /\ ~UserPresent(localStorage) => getCurrentUser(localStorage) = Null

\* the user key does not deserialize while a token is present
C18_Witness ==
  /\ localStorage[USER] = Corrupt
  /\ localStorage[TOKEN] # Null
  /\ ~isLoggedIn(localStorage)

Onboarded(u) == Get(u, "isOnboarded") = B(TRUE)

\* C19: per-session state machine of the in-memory user: from Anonymous a
\* successful login or signup leads to Authenticated with onboarded false;
\* onboarded becomes true only through completeOnboarding (or by restoring a
\* stored session at initialization); a completed logout leads to Anonymous.
C19_StateMachine ==
  [][/\ (ret'.ctx.op \in {"login", "signup"} /\ ret'.ctx.value.error = Undefined
          /\ user = Null)
         => user' # Null /\ ~Onboarded(user')
     /\ (~Onboarded(user) /\ Onboarded(user'))
         => \/ ret'.ctx.op = "completeOnboarding"
            \/ ret'.step = "initializeAuth"
     /\ ret'.ctx.op = "logout" => user' = Null]_vars

\* C20: nothing fires on expiry.  A step that is not a login, signup or
\* logout (the mutators, refreshToken, verifyEmail, a re-render, the clock
\* moving past subscriptionEnd) keeps subscribed true for the loaded user,
\* in memory and in the persisted record.
C20_NoExpiry ==
  [][(/\ ret'.step \notin {"login", "signup", "logout", "Resume",
                           "authService.logout", "Reload", "initializeAuth"}
      /\ user # Null)
       => /\ Subscribed(user) => Subscribed(user')
          /\ Subscribed(getCurrentUser(localStorage))
               => Subscribed(getCurrentUser(localStorage'))]_vars

\* C21: isLoading is true exactly while the initial load has not completed
\* or a Session Context login, signup or logout is in flight.
C21_IsLoadingExactly ==
  isLoading = (~mounted \/ pending # <<>>)

\* ---------------------------------------------------------------- overlapping operations
\* The Session Context's asynchronous operations alone, overlapping freely.
ConcurrentNext ==
  \/ Render
  \/ Reload
  \/ Mount
  \/ login
  \/ signup
  \/ logout
  \/ Resume

ConcurrentSpec == Init /\ [][ConcurrentNext]_vars

MirrorFields == ContextFields \cup {"subscriptionTier"}

\* C23: whenever the provider has initialized and no operation is in flight,
\* the in-memory user is absent iff the persisted record is absent, and when
\* present the two agree on id, email, fullName, phone, isOnboarded,
\* subscribed, subscriptionTier, subscriptionEnd and emailUnverified.
C23_StoreMirrorsMemory ==
  (mounted /\ pending = <<>>)
    => /\ (user = Null) = (persisted = Null)
       /\ user # Null => \A k \in MirrorFields : Get(user, k) = Get(persisted, k)

SubscriptionOps == {"startTrial", "setPaidSubscription"}
ProfileOps == {"completeOnboarding", "updateProfile"}

\* the mutator that the last step ran took effect
Acted(r, closure) == ~r.ctx.args.threw /\ closure # Null

\* C24: when a subscription mutator and a profile mutator run back to back
\* through callbacks of the same render, in either order, the in-memory user
\* afterwards carries both updates and equals the persisted record.
C24_NoLostUpdate ==
  [][(/\ ret.ctx.op \in SubscriptionOps \cup ProfileOps
      /\ ret'.ctx.op \in SubscriptionOps \cup ProfileOps
      /\ (ret.ctx.op \in SubscriptionOps) # (ret'.ctx.op \in SubscriptionOps)
      /\ Acted(ret, closureUser) /\ Acted(ret', closureUser))
       => /\ Subscribed(user')
          /\ Get(user', "fullName") = S(IF ret'.ctx.op \in ProfileOps
                                        THEN ret'.ctx.args.fullName
                                        ELSE ret.ctx.args.fullName)
          /\ \A k \in {"subscriptionTier", "subscriptionEnd", "isOnboarded"} :
               Get(user, k) # Undefined => Get(user', k) # Undefined
          /\ \A k \in UserFields :
               Get(user', k) = Get(getCurrentUser(localStorage'), k)]_vars

\* C25: a session survives a page reload: when the page is reloaded with no
\* operation in flight and the persisted record agreeing with the in-memory
\* user, initialization yields an in-memory user equal field for field to
\* the one just before the reload, subscriptionTier, companyName and
\* panNumber included.
C25_SurvivesReload ==
  [][(/\ ret.step = "Reload" /\ ret'.step = "initializeAuth"
      /\ ~ret.before.inFlight /\ ret.before.user # Null
      /\ \A k \in UserFields :
           Get(ret.before.user, k) = Get(getCurrentUser(localStorage), k))
       => /\ user' # Null
          /\ \A k \in UserFields : Get(user', k) = Get(ret.before.user, k)]_vars

\* ---------------------------------------------------------------- payment-success page
\* PaymentSuccessPage under the provider. Its effect depends on
\* setPaidSubscription, which every render of the provider creates anew, so
\* the effect runs again after each such render, and no run is cancelled.
OrderIds == {Null, S(""), S("order_1")}
Plans == {"semiannual", "annual", "monthly"}

\* what apiService.post('/payments/verify') settles with: a rejection, or a
\* response whose data carries isPaid and plan
Responses ==
  {[raised |-> TRUE, isPaid |-> FALSE, plan |-> "annual"]}
  \cup {[raised |-> FALSE, isPaid |-> p, plan |-> pl] : p \in BOOLEAN, pl \in Plans}

\* what the provider shows its consumers
Shown == <<user, isLoading, emailUnverified>>

\* the page's first render: status "verifying", the effect yet to run
FirstRender(orderId) ==
  [orderId |-> orderId, status |-> "verifying", rendered |-> <<Null, TRUE, FALSE>>,
   effectDue |-> TRUE, runs |-> <<>>]

PaymentInit ==
  /\ Constructed
  /\ page \in {FirstRender(o) : o \in OrderIds}

Without(seq, i) == [j \in 1..(Len(seq) - 1) |-> IF j < i THEN seq[j] ELSE seq[j + 1]]

\* verify, from the settled post to its next await or its end, with a
\* response that takes isPaid for granted
verify_response_ignoresIsPaid(closure, store, cur, response, t, failAt) ==
  IF response.raised
  THEN [user |-> cur, store |-> store, invoked |-> FALSE, plan |-> "none",
        status |-> "failed"]
  ELSE LET plan == IF response.plan = "semiannual" THEN "semiannual" ELSE "annual"
           r == setPaidSubscription(closure, store, cur, plan, t, failAt)
       IN  [user |-> r.user, store |-> r.store, invoked |-> TRUE, plan |-> plan,
            status |-> "verifying"]

\* verify, from the settled post to its next await or its end
verify_response(closure, store, cur, response, t, failAt) ==
  IF response.raised
  THEN [user |-> cur, store |-> store, invoked |-> FALSE, plan |-> "none",
        status |-> "failed"]
  ELSE IF response.isPaid
  THEN LET plan == IF response.plan = "semiannual" THEN "semiannual" ELSE "annual"
           r == setPaidSubscription(closure, store, cur, plan, t, failAt)
       IN  [user |-> r.user, store |-> r.store, invoked |-> TRUE, plan |-> plan,
            status |-> "verifying"]
  ELSE [user |-> cur, store |-> store, invoked |-> FALSE, plan |-> "none",
        status |-> "failed"]

\* the provider re-renders after a change of its state: the callbacks close
\* over the current user, and the page's effect is due again
PageRender ==
  /\ page.rendered # Shown
  /\ closureUser' = user
  /\ page' = [page EXCEPT !.rendered = Shown, !.effectDue = TRUE]
  /\ ret' = [step |-> "PageRender", sm |-> NoCall, ctx |-> NoCall]
  /\ UNCHANGED <<localStorage, USE_AMPLIFY_AUTH, now, user, isLoading,
                 emailUnverified, mounted, pending, ops>>

\* the effect runs verify up to its first await, with the setPaidSubscription
\* of the render it belongs to
verify ==
  /\ page.effectDue
  /\ ops < MaxOps
  /\ ops' = ops + 1
  /\ IF page.orderId = Null \/ ~Truthy(page.orderId)
     THEN page' = [page EXCEPT !.effectDue = FALSE, !.status = "failed"]
     ELSE page' = [page EXCEPT !.effectDue = FALSE,
                     !.runs = Append(@, [closure |-> closureUser,
                                         stage |-> "post", plan |-> "none"])]
  /\ ret' = [step |-> "verify", sm |-> NoCall, ctx |-> NoCall,
             orderId |-> page.orderId]
  /\ UNCHANGED <<localStorage, USE_AMPLIFY_AUTH, now, user, isLoading,
                 emailUnverified, closureUser, mounted, pending>>

\* the post of one run settles
Responds ==
  \E i \in DOMAIN page.runs, response \in Responses, failAt \in FailAt(1) :
    /\ page.runs[i].stage = "post"
    /\ now' \in {now} \cup Later(now)
    /\ LET r == verify_response(page.runs[i].closure, localStorage, user,
                                response, now', failAt)
       IN  /\ user' = r.user
           /\ localStorage' = r.store
           /\ page' = IF r.invoked
                      THEN [page EXCEPT !.runs[i].stage = "setPaidSubscription",
                                        !.runs[i].plan = r.plan]
                      ELSE [page EXCEPT !.runs = Without(@, i),
                                        !.status = r.status]
           /\ ret' = [step |-> "Responds", sm |-> NoCall,
                      ctx |-> IF r.invoked
                              THEN [op |-> "setPaidSubscription", tier |-> r.plan,
                                    closure |-> page.runs[i].closure,
                                    threw |-> failAt # 0]
                              ELSE NoCall,
                      orderId |-> page.orderId, response |-> response]
    /\ UNCHANGED <<USE_AMPLIFY_AUTH, isLoading, emailUnverified, closureUser,
                   mounted, pending, ops>>

\* a run resumes behind `await setPaidSubscription(plan)`
Succeeds ==
  \E i \in DOMAIN page.runs :
    /\ page.runs[i].stage = "setPaidSubscription"
    /\ page' = [page EXCEPT !.runs = Without(@, i), !.status = "success"]
    /\ ret' = [step |-> "Succeeds", sm |-> NoCall, ctx |-> NoCall,
               plan |-> page.runs[i].plan]
    /\ UNCHANGED <<localStorage, USE_AMPLIFY_AUTH, now, user, isLoading,
                   emailUnverified, closureUser, mounted, pending, ops>>

PaymentNext ==
  \/ Mount
  \/ PageRender
  \/ verify
  \/ Responds
  \/ Succeeds

PaymentSpec == PaymentInit /\ [][PaymentNext]_vars

SubscriptionFields == {"subscribed", "subscriptionTier", "subscriptionEnd"}

\* the subscription fields of both copies are what they were
SubscriptionUnchanged ==
  /\ \A k \in SubscriptionFields : Get(user', k) = Get(user, k)
  /\ (user = Null) = (user' = Null)
  /\ \A k \in SubscriptionFields :
       Get(getCurrentUser(localStorage'), k) = Get(getCurrentUser(localStorage), k)
  /\ (getCurrentUser(localStorage') = Null) = (getCurrentUser(localStorage) = Null)

\* C26: the payment-success flow invokes setPaidSubscription only once the
\* verification call returned isPaid = true for a present order_id; with a
\* missing order_id, an isPaid = false response or a failed call, the flow
\* sets status failed and leaves subscribed, subscriptionTier and
\* subscriptionEnd as they were, in memory and in the persisted record.
C26_OnlyAfterVerifiedPayment ==
  [][/\ (ret'.step = "verify" /\ (page.orderId = Null \/ page.orderId = S("")))
          => page'.status = "failed" /\ SubscriptionUnchanged
     /\ (ret'.step = "verify") => ret'.ctx = NoCall
     /\ (ret'.step = "Responds" /\ (ret'.response.raised \/ ~ret'.response.isPaid))
          => /\ page'.status = "failed"
             /\ ret'.ctx = NoCall
             /\ SubscriptionUnchanged
     /\ (ret'.step \in {"verify", "Responds", "Succeeds"}
          /\ ret'.ctx # NoCall)
          => /\ ret'.ctx.op = "setPaidSubscription"
             /\ ret'.step = "Responds"
             /\ ~ret'.response.raised /\ ret'.response.isPaid
             /\ page.orderId \notin {Null, S("")}]_vars

\* an isPaid = false response reached a run whose setPaidSubscription closed
\* over a loaded user
C26_Witness ==
  /\ ret.step = "Responds"
  /\ ~ret.response.raised /\ ~ret.response.isPaid
  /\ page.status = "failed"
  /\ user # Null /\ closureUser # Null

\* C27: whenever the payment-success flow sets status success, the user is
\* subscribed with the paid tier, in memory and in the persisted record,
\* whatever the provider's state was when setPaidSubscription ran.
C27_SuccessMeansSubscribed ==
  ret.step = "Succeeds"
    => /\ user # Null
       /\ Get(user, "subscribed") = B(TRUE)
       /\ Get(user, "subscriptionTier") = S(ret.plan)
       /\ Get(getCurrentUser(localStorage), "subscribed") = B(TRUE)
       /\ Get(getCurrentUser(localStorage), "subscriptionTier") = S(ret.plan)

====
